---- MODULE Spec2Model ----
(***************************************************************************)
(* Task service (main_service/app): the create / list / health handlers,   *)
(* the TaskBase validation rules, the per-request session dependency and   *)
(* the start-up schema initialisation, over one relational table "task".   *)
(*                                                                         *)
(* JSON values are records [t, c, n]: a string is a run of n copies of the *)
(* character c (the tests build titles as "A" * 300), an integer is n, a   *)
(* boolean is n \in {0,1}; null and an absent field are markers.           *)
(***************************************************************************)
EXTENDS Integers, FiniteSets, Sequences, TLC

\* ---------------------------------------------------------------- bounds
NumRequests == 3

Requests == 1..NumRequests

\* ---------------------------------------------------------------- values
StrV(ch, len) == [t |-> "str", c |-> ch, n |-> len]
IntV(k) == [t |-> "int", c |-> "", n |-> k]
BoolV(b) == [t |-> "bool", c |-> "", n |-> IF b THEN 1 ELSE 0]
Null == [t |-> "null", c |-> "", n |-> 0]
Absent == [t |-> "absent", c |-> "", n |-> 0]

\* models.py: Field(max_length=255)
MaxTitleLen == 255
\* an id a client puts in its payload
ClientId == IntV(99)

Err(field, type, msg) == [loc |-> <<"body", field>>, type |-> type, msg |-> msg]

\* pydantic's lax bool: true/false, the integers 0 and 1, and the one-letter
\* strings among its accepted spellings
BoolTrueChars == {"1", "t", "T", "y", "Y"}
BoolFalseChars == {"0", "f", "F", "n", "N"}

BoolCoercible(v) ==
    \/ v.t = "bool"
    \/ v.t = "int" /\ v.n \in {0, 1}
    \/ v.t = "str" /\ v.n = 1 /\ v.c \in (BoolTrueChars \cup BoolFalseChars)

BoolCoerce(v) ==
    IF v.t = "str" THEN BoolV(v.c \in BoolTrueChars) ELSE BoolV(v.n = 1)

\* title: str = Field(index=True, max_length=255, nullable=False)
TitleErrorsNoMaxLength(v) ==
    IF v = Absent THEN {Err("title", "missing", "Field required")}
    ELSE IF v.t # "str"
         THEN {Err("title", "string_type", "Input should be a valid string")}
    ELSE {}

TitleErrors(v) ==
    IF v = Absent THEN {Err("title", "missing", "Field required")}
    ELSE IF v.t # "str"
         THEN {Err("title", "string_type", "Input should be a valid string")}
    ELSE IF v.n > MaxTitleLen
         THEN {Err("title", "string_too_long",
                   "String should have at most 255 characters")}
    ELSE {}

\* description: Optional[str] = Field(default=None, ...)
DescriptionErrors(v) ==
    IF v.t \in {"absent", "null", "str"} THEN {}
    ELSE {Err("description", "string_type", "Input should be a valid string")}

\* is_completed: bool = Field(default=False)
IsCompletedErrors(v) ==
    IF v = Absent \/ BoolCoercible(v) THEN {}
    ELSE {Err("is_completed", "bool_parsing",
              "Input should be a valid boolean")}

\* TaskCreate(**payload): the field errors of a request body
TaskCreateErrors(p) ==
    TitleErrors(p.title) \cup DescriptionErrors(p.description)
        \cup IsCompletedErrors(p.is_completed)

\* TaskCreate(**payload) of a body without errors: declared fields only,
\* defaults filled in, undeclared fields (an "id") ignored
TaskCreateKeepExtra(p) ==
    [title |-> p.title,
     description |-> IF p.description = Absent THEN Null ELSE p.description,
     is_completed |-> IF p.is_completed = Absent THEN BoolV(FALSE)
                      ELSE BoolCoerce(p.is_completed),
     id |-> p.id]

TaskCreateDefaultTrue(p) ==
    [title |-> p.title,
     description |-> IF p.description = Absent THEN Null ELSE p.description,
     is_completed |-> IF p.is_completed = Absent THEN BoolV(TRUE)
                      ELSE BoolCoerce(p.is_completed)]

TaskCreate(p) ==
    [title |-> p.title,
     description |-> IF p.description = Absent THEN Null ELSE p.description,
     is_completed |-> IF p.is_completed = Absent THEN BoolV(FALSE)
                      ELSE BoolCoerce(p.is_completed)]

\* Task.model_validate(task): the same field rules, applied to the attributes
\* of the TaskCreate object
TaskErrors(tc) ==
    TitleErrors(tc.title) \cup DescriptionErrors(tc.description)
        \cup IsCompletedErrors(tc.is_completed)

\* Task.model_validate(task): every Task field read from the object, the
\* default (id = None) where the object has no such attribute
Task(tc) ==
    [id |-> IF "id" \in DOMAIN tc /\ tc.id # Absent THEN tc.id ELSE Null,
     title |-> tc.title,
     description |-> tc.description,
     is_completed |-> tc.is_completed]

\* response_model=TaskRead
TaskRead(row) ==
    [id |-> row.id, title |-> row.title, description |-> row.description,
     is_completed |-> row.is_completed]

\* ---------------------------------------------------------------- inputs
P(title, description, is_completed, id) ==
    [title |-> title, description |-> description,
     is_completed |-> is_completed, id |-> id]

Payloads ==
    { P(StrV("C", 13), StrV("L", 12), BoolV(FALSE), Absent),
      P(StrV("A", 255), Null, Absent, ClientId),
      P(StrV("A", 256), Absent, Absent, Absent),
      P(Absent, StrV("E", 25), Absent, Absent),
      P(StrV("", 0), Absent, IntV(1), Absent),
      P(IntV(5), IntV(3), Null, Absent) }

NoPayload == P(Absent, Absent, Absent, Absent)
NoTask == [id |-> Null, title |-> Absent, description |-> Absent,
           is_completed |-> Absent]

\* ---------------------------------------------------------------- state
VARIABLES
    phase,      \* "down" | "serving" | "failed" | "stopped": the process
    restarted,  \* the process has been started before this start
    initCount,  \* create_db_and_tables() calls of the current process
    dbUp,       \* the database is reachable
    tables,     \* number of "task" tables in the database
    tasks,      \* rows of the "task" table
    nextId,     \* next value of the id sequence
    req         \* per request: position, session, payload, response

vars == <<phase, restarted, initCount, dbUp, tables, tasks, nextId, req>>

NoResp == [status |-> 0, kind |-> "none", task |-> NoTask, list |-> {},
           errors |-> {}, text |-> "", by |-> "none"]

IdleReq == [kind |-> "none", pc |-> "idle", payload |-> NoPayload,
            db_task |-> NoTask, sess |-> FALSE, acq |-> 0, ops |-> 0,
            resp |-> NoResp]

Init ==
    /\ phase = "down"
    /\ restarted = FALSE
    /\ initCount = 0
    /\ dbUp = TRUE
    /\ tables = 0
    /\ tasks = {}
    /\ nextId = 1
    /\ req = [r \in Requests |-> IdleReq]

DbOk == dbUp /\ tables > 0

\* ---------------------------------------------------------------- responses
\* health_check(): return {"status": "ok", "message": "API is running!"}
HealthBody == "{\"status\":\"ok\",\"message\":\"API is running!\"}"

HealthResponseNeedsDb ==
    IF dbUp
    THEN [NoResp EXCEPT !.status = 200, !.kind = "health",
                        !.text = HealthBody, !.by = "handler"]
    ELSE [NoResp EXCEPT !.status = 500, !.kind = "text",
                        !.text = "Internal Server Error", !.by = "server"]

HealthResponse ==
    [NoResp EXCEPT !.status = 200, !.kind = "health", !.text = HealthBody,
                   !.by = "handler"]

\* FastAPI's answer to a body that fails TaskCreate: 422, {"detail": errors}
ValidationResponse(errors) ==
    [NoResp EXCEPT !.status = 422, !.kind = "errors", !.errors = errors,
                   !.by = "framework"]

\* create_task: except ValidationError -> HTTPException(422, e.errors())
HandlerValidationResponse(errors) ==
    [NoResp EXCEPT !.status = 422, !.kind = "errors", !.errors = errors,
                   !.by = "handler"]

\* create_task: except Exception -> HTTPException(500, "Error interno ...")
InternalErrorDetail == "Error interno del servidor al procesar la solicitud."

InternalErrorResponse ==
    [NoResp EXCEPT !.status = 500, !.kind = "detail",
                   !.text = InternalErrorDetail, !.by = "handler"]

\* an exception no handler catches: the server's own 500 page
UncaughtResponse ==
    [NoResp EXCEPT !.status = 500, !.kind = "text",
                   !.text = "Internal Server Error", !.by = "server"]

\* create_task: return db_task, through response_model=TaskRead, status 201
CreatedResponse(row) ==
    [NoResp EXCEPT !.status = 201, !.kind = "task", !.task = TaskRead(row),
                   !.by = "handler"]

\* read_tasks: return tasks, through response_model=List[TaskRead]
ListResponse(rows) ==
    [NoResp EXCEPT !.status = 200, !.kind = "tasks",
                   !.list = {TaskRead(row) : row \in rows}, !.by = "handler"]

\* ---------------------------------------------------------------- database
\* SQLModel.metadata.create_all(engine): CREATE TABLE only for a missing table
CreateAllRecreate(tbls, rows) == [ok |-> TRUE, tables |-> 1, tasks |-> {}]

CreateAllNoCheckFirst(tbls, rows) ==
    [ok |-> TRUE, tables |-> tbls + 1, tasks |-> rows]

CreateAll(tbls, rows) ==
    [ok |-> TRUE, tables |-> IF tbls = 0 THEN 1 ELSE tbls, tasks |-> rows]

\* select(Task): every row, in no stated order
SelectIncomplete(rows) == {row \in rows : row.is_completed = BoolV(FALSE)}

SelectTask(rows) == rows

\* get_session: "with Session(engine) as session: yield session" leaves the
\* session closed whatever response the request ends with
SessionLeakOnError(resp) == resp.status >= 500

SessionOpenAfter(resp) == FALSE

InFlight(r) == req[r].pc \notin {"idle", "done"}

\* requests are numbered in the order they arrive
MayArrive(r) ==
    /\ phase = "serving"
    /\ req[r].pc = "idle"
    /\ IF r = 1 THEN TRUE ELSE req[r - 1].pc # "idle"

Finish(rec, resp) ==
    [rec EXCEPT !.pc = "done", !.resp = resp, !.sess = SessionOpenAfter(resp)]

\* ---------------------------------------------------------------- process
\* lifespan(app): create_db_and_tables() before the first request
Lifespan ==
    /\ phase \in {"down", "stopped", "failed"}
    /\ restarted' = (phase # "down")
    /\ initCount' = 1
    /\ LET res == CreateAll(tables, tasks)
       IN  IF dbUp /\ res.ok
           THEN /\ phase' = "serving"
                /\ tables' = res.tables
                /\ tasks' = res.tasks
           ELSE /\ phase' = "failed"
                /\ UNCHANGED <<tables, tasks>>
    /\ UNCHANGED <<dbUp, nextId, req>>

\* lifespan(app) after the yield: nothing to clean up
Shutdown ==
    /\ phase = "serving"
    /\ \A r \in Requests : ~InFlight(r)
    /\ phase' = "stopped"
    /\ initCount' = 0
    /\ UNCHANGED <<restarted, dbUp, tables, tasks, nextId, req>>

\* the environment: the database becomes unreachable, or reachable again
DbFails ==
    /\ dbUp
    /\ dbUp' = FALSE
    /\ UNCHANGED <<phase, restarted, initCount, tables, tasks, nextId, req>>

DbRecovers ==
    /\ ~dbUp
    /\ dbUp' = TRUE
    /\ UNCHANGED <<phase, restarted, initCount, tables, tasks, nextId, req>>

\* ---------------------------------------------------------------- handlers
\* GET /health
HealthCheck(r) ==
    /\ MayArrive(r)
    /\ req' = [req EXCEPT ![r] =
                 [@ EXCEPT !.kind = "health", !.pc = "done",
                           !.resp = HealthResponse]]
    /\ UNCHANGED <<phase, restarted, initCount, dbUp, tables, tasks, nextId>>

\* POST /tasks/: the session dependency, the body validation, and the
\* handler through session.commit(), the INSERT
CreateTask(r, p) ==
    /\ MayArrive(r)
    /\ LET rec == [req[r] EXCEPT !.kind = "create", !.payload = p,
                                 !.sess = TRUE, !.acq = @ + 1]
           errors == TaskCreateErrors(p)
           db_task == Task(TaskCreate(p))
           generated == db_task.id = Null
           newId == IF generated THEN IntV(nextId) ELSE db_task.id
       IN  IF errors # {}
           THEN /\ req' = [req EXCEPT ![r] =
                             Finish(rec, ValidationResponse(errors))]
                /\ UNCHANGED <<tasks, nextId>>
           ELSE IF TaskErrors(TaskCreate(p)) # {}
           THEN /\ req' = [req EXCEPT ![r] =
                             Finish(rec, HandlerValidationResponse(
                                            TaskErrors(TaskCreate(p))))]
                /\ UNCHANGED <<tasks, nextId>>
           ELSE IF DbOk /\ ~(\E row \in tasks : row.id = newId)
           THEN /\ tasks' = tasks \cup {[db_task EXCEPT !.id = newId]}
                /\ nextId' = IF generated THEN nextId + 1 ELSE nextId
                /\ req' = [req EXCEPT ![r] =
                             [rec EXCEPT !.pc = "refresh", !.ops = @ + 1,
                                         !.db_task = [db_task EXCEPT
                                                        !.id = newId]]]
           ELSE /\ req' = [req EXCEPT ![r] =
                             Finish([rec EXCEPT !.ops = @ + 1,
                                                !.db_task = db_task],
                                    InternalErrorResponse)]
                /\ UNCHANGED <<tasks, nextId>>
    /\ UNCHANGED <<phase, restarted, initCount, dbUp, tables>>

\* POST /tasks/: session.refresh(db_task), the SELECT of the new row, and the
\* return
CreateTaskRefresh(r) ==
    /\ req[r].pc = "refresh"
    /\ LET rec == req[r]
           found == {row \in tasks : row.id = rec.db_task.id}
       IN  req' = [req EXCEPT ![r] =
             IF DbOk /\ found # {}
             THEN Finish([rec EXCEPT !.db_task = CHOOSE row \in found : TRUE],
                         CreatedResponse(CHOOSE row \in found : TRUE))
             ELSE Finish(rec, InternalErrorResponse)]
    /\ UNCHANGED <<phase, restarted, initCount, dbUp, tables, tasks, nextId>>

\* GET /tasks/: the session dependency, session.exec(select(Task)).all() and
\* the return; nothing in the handler catches a failure of the query
ReadTasks(r) ==
    /\ MayArrive(r)
    /\ LET rec == [req[r] EXCEPT !.kind = "list", !.sess = TRUE,
                                 !.acq = @ + 1, !.ops = @ + 1]
       IN  req' = [req EXCEPT ![r] =
             IF DbOk
             THEN Finish(rec, ListResponse(SelectTask(tasks)))
             ELSE Finish(rec, UncaughtResponse)]
    /\ UNCHANGED <<phase, restarted, initCount, dbUp, tables, tasks, nextId>>

Next ==
    \/ Lifespan
    \/ Shutdown
    \/ DbFails
    \/ DbRecovers
    \/ \E r \in Requests : HealthCheck(r)
    \/ \E r \in Requests, p \in Payloads : CreateTask(r, p)
    \/ \E r \in Requests : CreateTaskRefresh(r)
    \/ \E r \in Requests : ReadTasks(r)

Spec == Init /\ [][Next]_vars

\* ---------------------------------------------------------------- claims
Done(r) == req[r].pc = "done"
Arrives(r) == req[r].pc = "idle" /\ req'[r].pc # "idle"

\* the validation rules as section 4.1 of the specification words them
SpecValid(p) ==
    /\ p.title.t = "str" /\ p.title.n >= 1 /\ p.title.n <= 255
    /\ p.description.t \in {"absent", "null", "str"}
    /\ p.is_completed.t \in {"absent", "bool"}

\* the input view a payload stands for: absent fields at their defaults
ViewOf(p) ==
    [title |-> p.title,
     description |-> IF p.description.t = "absent" THEN Null ELSE p.description,
     is_completed |-> IF p.is_completed.t = "absent" THEN BoolV(FALSE)
                      ELSE p.is_completed]

FieldsOf(t) ==
    [title |-> t.title, description |-> t.description,
     is_completed |-> t.is_completed]

TitleRejected(p) ==
    p.title.t = "absent" \/ p.title.t # "str" \/ p.title.n > 255

\* C1: a create payload is accepted (reaches the INSERT, can return 201) only
\* if it satisfies the rules of section 4.1, title non-empty included; so
\* every stored Task has a title of 1..255 characters.
C1_AcceptedOnlyIfValid ==
    /\ \A r \in Requests :
         (req[r].kind = "create" /\ (req[r].ops > 0 \/ req[r].resp.status = 201))
            => SpecValid(req[r].payload)
    /\ \A row \in tasks :
         row.title.t = "str" /\ row.title.n >= 1 /\ row.title.n <= 255

\* C2: a create request whose title is omitted, not a string or longer than
\* 255 characters ends, in the step that receives it, with 422 and a list of
\* field errors located under "body" (a "Field required" entry at
\* body.title when the title is omitted); that step makes no persistence
\* call and leaves the table and the id sequence as they were.
C2_Invalid422NoPersistence ==
    [][\A r \in Requests :
         (Arrives(r) /\ req'[r].kind = "create"
                     /\ TitleRejected(req'[r].payload))
            => /\ req'[r].pc = "done"
               /\ req'[r].resp.status = 422
               /\ req'[r].resp.kind = "errors"
               /\ req'[r].resp.errors # {}
               /\ \A e \in req'[r].resp.errors :
                    Len(e.loc) = 2 /\ e.loc[1] = "body"
               /\ \E e \in req'[r].resp.errors :
                    /\ e.loc = <<"body", "title">>
                    /\ req'[r].payload.title.t = "absent"
                         => e.msg = "Field required"
               /\ req'[r].ops = 0
               /\ tasks' = tasks
               /\ nextId' = nextId]_vars

C2_Witness ==
    \E r \in Requests :
        /\ Done(r) /\ req[r].kind = "create" /\ req[r].resp.status = 422
        /\ req[r].payload.title = StrV("A", 256)
        /\ tasks # {}

\* C3: when list-tasks answers 200, then for every create that has already
\* answered 201 to a payload valid by section 4.1, the listed Tasks include
\* exactly one with the id that create returned; its title, description and
\* is_completed are the payload's (is_completed false, description null,
\* where the payload omits them); the id is a positive integer and no other
\* create returned it.
C3_CreateThenList ==
    [][\A l \in Requests :
         (Arrives(l) /\ req'[l].kind = "list" /\ req'[l].resp.status = 200)
            => \A c \in Requests :
                 (/\ req[c].kind = "create" /\ Done(c)
                  /\ req[c].resp.status = 201
                  /\ SpecValid(req[c].payload))
                    => LET id == req[c].resp.task.id
                           hits == {t \in req'[l].resp.list : t.id = id}
                       IN  /\ Cardinality(hits) = 1
                           /\ \A t \in hits :
                                FieldsOf(t) = ViewOf(req[c].payload)
                           /\ id.t = "int" /\ id.n > 0
                           /\ \A d \in Requests \ {c} :
                                req[d].resp.status = 201
                                   => req[d].resp.task.id # id]_vars

C3_Witness ==
    \E c, d, l \in Requests :
        /\ c # d
        /\ req[c].resp.status = 201 /\ req[d].resp.status = 201
        /\ SpecValid(req[c].payload) /\ req[c].payload.is_completed = Absent
        /\ req[l].kind = "list" /\ req[l].resp.status = 200
        /\ req[c].resp.task \in req[l].resp.list
        /\ req[d].resp.task \in req[l].resp.list

\* C4: a create or list request that fails because the database is
\* unreachable or rejects the operation is answered by the handler itself
\* with 500 and the generic message, after one attempt, and leaves no row of
\* its own in the table.
C4_PersistenceErrorHandled ==
    \A r \in Requests :
        (Done(r) /\ req[r].resp.status = 500)
           => /\ req[r].resp.by = "handler"
              /\ req[r].resp.text = InternalErrorDetail
              /\ req[r].ops = 1
              /\ ~(\E row \in tasks : row.id = req[r].db_task.id)

\* C5: a list-tasks request served while the database is reachable answers
\* 200 with exactly the rows stored at that moment, field for field; with no
\* row stored the answer is 200 and the empty collection.
C5_ListReturnsStored ==
    [][\A r \in Requests :
         (Arrives(r) /\ req'[r].kind = "list" /\ dbUp)
            => /\ req'[r].pc = "done"
               /\ req'[r].resp.status = 200
               /\ req'[r].resp.kind = "tasks"
               /\ req'[r].resp.list = tasks
               /\ tasks = {} => req'[r].resp.list = {}]_vars

C5_Witness ==
    \E a, b \in Requests :
        /\ req[a].kind = "list" /\ req[a].resp.status = 200
        /\ req[a].resp.list = {}
        /\ req[b].kind = "list" /\ req[b].resp.status = 200
        /\ req[b].resp.list # {}

\* C6: a health request always ends at once with 200 and the fixed payload,
\* whether the database is reachable or not and whatever it holds; it opens
\* no session, makes no persistence call and changes no stored Task.
C6_HealthAlwaysOk ==
    [][\A r \in Requests :
         (Arrives(r) /\ req'[r].kind = "health")
            => /\ req'[r].pc = "done"
               /\ req'[r].resp.status = 200
               /\ req'[r].resp.text =
                    "{\"status\":\"ok\",\"message\":\"API is running!\"}"
               /\ req'[r].acq = 0 /\ ~req'[r].sess /\ req'[r].ops = 0
               /\ tasks' = tasks /\ nextId' = nextId /\ tables' = tables]_vars

C6_Witness ==
    \E r, c \in Requests :
        /\ req[r].kind = "health" /\ Done(r) /\ req[r].resp.status = 200
        /\ req[c].pc = "refresh" /\ r > c
        /\ ~dbUp /\ tasks # {}

\* C7: stored Tasks never share an id; every stored id is a value the id
\* sequence has issued; two creates that answered 201 returned different
\* ids; and an id in the client's payload is never the id under which its
\* row is stored.
C7_ServerAssignedUniqueIds ==
    /\ \A t1, t2 \in tasks : t1.id = t2.id => t1 = t2
    /\ \A t \in tasks : t.id.t = "int" /\ t.id.n >= 1 /\ t.id.n < nextId
    /\ \A c, d \in Requests :
         (c # d /\ req[c].resp.status = 201 /\ req[d].resp.status = 201)
            => req[c].resp.task.id # req[d].resp.task.id
    /\ \A r \in Requests :
         (req[r].kind = "create" /\ req[r].payload.id # Absent
            /\ req[r].ops > 0)
            => req[r].db_task.id # req[r].payload.id

C7_Witness ==
    \E c, d \in Requests :
        /\ c # d
        /\ req[c].pc = "refresh" /\ req[d].pc = "refresh"
        /\ req[c].payload.id = ClientId
        /\ req[c].db_task.id # req[d].db_task.id

\* C8: no step removes or alters a stored row; the table changes only in the
\* step that receives a create request, by exactly one new row; a create
\* that answers 201 has exactly one row under the id it returns; health and
\* list steps leave the table as it was; and a list that answers 200 returns
\* every row stored so far unchanged.
C8_OnlyCreateChangesStore ==
    [][/\ tasks \subseteq tasks'
       /\ tasks' # tasks
            => /\ Cardinality(tasks' \ tasks) = 1
               /\ \E r \in Requests : Arrives(r) /\ req'[r].kind = "create"
       /\ \A r \in Requests :
            /\ (req'[r] # req[r] /\ req'[r].resp.status = 201)
                  => Cardinality({row \in tasks' :
                                    row.id = req'[r].resp.task.id}) = 1
            /\ (Arrives(r) /\ req'[r].kind \in {"health", "list"})
                  => tasks' = tasks
            /\ (Arrives(r) /\ req'[r].kind = "list"
                           /\ req'[r].resp.status = 200)
                  => tasks \subseteq req'[r].resp.list]_vars

C8_Witness ==
    \E c, h, l \in Requests :
        /\ c < h /\ h < l
        /\ req[c].kind = "create" /\ req[c].resp.status = 201
        /\ req[h].kind = "health" /\ Done(h)
        /\ req[l].kind = "list" /\ req[l].resp.status = 200
        /\ req[c].resp.task \in req[l].resp.list
        /\ restarted

\* C9: every process start calls the schema initialisation once; with the
\* database reachable the start succeeds whether or not the table exists,
\* leaves exactly one table and leaves the rows and the id sequence as they
\* were; requests are received only by a process that has initialised once
\* and has the table; shutting down changes nothing in the database.
C9_SchemaInitOnceIdempotent ==
    [][/\ (phase # "serving" /\ (phase' # phase \/ restarted' # restarted))
            => /\ initCount' = 1
               /\ dbUp => /\ phase' = "serving"
                          /\ tables' = 1
                          /\ tasks' = tasks
                          /\ nextId' = nextId
       /\ req' # req => phase = "serving" /\ initCount = 1 /\ tables = 1
       /\ (phase = "serving" /\ phase' # "serving")
            => tables' = tables /\ tasks' = tasks /\ nextId' = nextId
       /\ tables' <= 1]_vars

C9_Witness ==
    /\ restarted /\ phase = "serving" /\ initCount = 1
    /\ tables = 1 /\ tasks # {}
    /\ \A r \in Requests : req[r].pc = "idle" \/ req[r].resp.status = 201

\* C10 as worded: every completed create or list request has acquired one
\* session, used it for exactly one operation and released it.
C10_ExactlyOneOperation ==
    \A r \in Requests :
        (Done(r) /\ req[r].kind \in {"create", "list"})
           => req[r].acq = 1 /\ req[r].ops = 1 /\ ~req[r].sess

\* C10 amended: every create or list request acquires exactly one session
\* and uses it for at most one operation: exactly one when it ends with 200,
\* 201 or 500, none when it ends with 422; the session is open while the
\* request is in flight and released once it has ended, so no session is
\* open when every request has ended.
C10_SessionPerRequest ==
    /\ \A r \in Requests :
         req[r].kind \in {"create", "list"}
            => /\ req[r].acq = 1
               /\ req[r].ops <= 1
               /\ req[r].pc = "refresh" => req[r].sess /\ req[r].ops = 1
               /\ Done(r) => /\ ~req[r].sess
                             /\ req[r].resp.status \in {200, 201, 500}
                                   => req[r].ops = 1
                             /\ req[r].resp.status = 422 => req[r].ops = 0
    /\ (\A r \in Requests : req[r].pc \in {"idle", "done"})
          => \A r \in Requests : ~req[r].sess

C10_Witness ==
    \E a, b, c \in Requests :
        /\ Done(a) /\ req[a].resp.status = 201
        /\ Done(b) /\ req[b].resp.status = 422
        /\ Done(c) /\ req[c].resp.status = 500
        /\ \A r \in Requests : ~req[r].sess

====
